---- MODULE Spec2Model ----
(***************************************************************************)
(* A model of the covariance regularisation routines of gvar/__init__.py   *)
(* (find_diagonal_blocks, svd, chi2, fmt_chi2), of its factory switch      *)
(* (switch_gvar, restore_gvar) and of lsqfit/_extras.py (wavg,             *)
(* empbayes_fit).  Matrices are modelled by their zero / nonzero pattern,  *)
(* which is all find_diagonal_blocks reads; eigenvalues are small integers.*)
(***************************************************************************)
EXTENDS Integers, Sequences, FiniteSets, TLC

VARIABLES
    pc,                  \* position of the running call
    caller,              \* who called find_diagonal_blocks: "none" or "svd"
    m,                   \* find_diagonal_blocks: the matrix argument (svd: cov)
    unassigned_indices,  \* find_diagonal_blocks: set of indices not yet in a block
    non_zero,            \* find_diagonal_blocks: list of per-row nonzero sets
    blocks,              \* find_diagonal_blocks: list of blocks (sets) built so far
    block_idx,           \* find_diagonal_blocks: the returned list of index arrays
    heap,                \* svd: the collections, by reference ("caller", "local")
    g_before,            \* svd: the caller's collection as it was when svd was called
    g,                   \* svd: the reference the local name g is bound to
    svdcut,              \* svd: argument, None or <<numerator, denominator>>
    compute_inv,         \* svd: argument
    bi,                  \* svd: position of the for loop in block_idx
    lost_modes,          \* svd: local counter
    inv_wgts,            \* svd: local list of (index list, weight list) pairs
    svd_log,             \* svd: the blocks handed to SVD and the modes each kept
    svd_attr,            \* svd: the attributes stored on the function svd
    ret,                 \* svd: the returned value
    chi2_attr,           \* chi2: the attributes stored on the function chi2
    chi2_call,           \* chi2: the arguments of the call that just returned
    chi2_ret,            \* chi2: what that call returned or raised
    wavg_attr,           \* wavg: the attributes stored on the function wavg
    wavg_call,           \* wavg: the arguments of the call that just returned
    wavg_ret,            \* wavg: what that call returned
    eb_minargs,          \* empbayes_fit: "given" or "default" (minargs == {})
    eb_save,             \* empbayes_fit: the dictionary save (lastz, lastp0)
    eb_log,              \* empbayes_fit: the fits minfcn has run, in order
    eb_z,                \* empbayes_fit: the local z after the try statement
    eb_warned,           \* empbayes_fit: the except branch has run
    eb_ret,              \* empbayes_fit: what the call returned or raised
    gv_cur,              \* gvar: the module global gvar (the current factory)
    gv_list,             \* gvar: the module global _GVAR_LIST
    gv_next,             \* gvar: identity of the next GVarFactory object created
    gv_parent,           \* gvar: for each created factory, the factory it replaced
    gv_out               \* gvar: outcome of the last switch_gvar / restore_gvar

fdb_vars == <<m, unassigned_indices, non_zero, blocks, block_idx>>
svd_vars == <<heap, g_before, g, svdcut, compute_inv, bi, lost_modes, inv_wgts,
              svd_log, svd_attr, ret>>
chi2_vars == <<chi2_attr, chi2_call, chi2_ret>>
wavg_vars == <<wavg_attr, wavg_call, wavg_ret>>
eb_vars == <<eb_minargs, eb_save, eb_log, eb_z, eb_warned, eb_ret>>
gv_vars == <<gv_cur, gv_list, gv_next, gv_parent, gv_out>>
aux_vars == <<eb_vars, gv_vars>>
stat_vars == <<chi2_vars, wavg_vars, aux_vars>>
vars == <<pc, caller, fdb_vars, svd_vars, stat_vars>>

\* ------------------------------------------------------------------ bounds
MaxN == 5        \* largest matrix dimension handed to find_diagonal_blocks
MaxEdges == 4    \* largest number of nonzero off-diagonal pairs of a sparse matrix
MaxG == 4        \* largest collection handed to svd
MaxGEdges == 2   \* largest number of correlated pairs of a sparse collection
MaxEig == 2      \* eigenvalues of a block are drawn from 1 .. MaxEig
MaxLen == 2      \* chi2: largest array length
MaxChi == 1      \* chi2: the statistic is drawn from 0 .. MaxChi
MaxK == 2        \* wavg: largest length of the arrays averaged
MaxZ == 3        \* empbayes_fit: the search visits z in 1 .. MaxZ
MaxEvals == 3    \* empbayes_fit: most calls of minfcn in one search
MaxSwitch == 4   \* gvar: most GVarFactory objects created by switch_gvar

\* Python's None; a value that may be None is <<>> or, for a number, <<x>>
None == <<>>

\* ------------------------------------------------------------------ helpers
Range(n) == 0 .. (n - 1)

Min2(a, b) == IF a < b THEN a ELSE b
Max2(a, b) == IF a < b THEN b ELSE a

SetMin(S) == CHOOSE x \in S : \A y \in S : x <= y

\* the elements of a set of integers in descending order
RECURSIVE SortedDesc(_)
SortedDesc(S) ==
    IF S = {} THEN <<>>
    ELSE LET x == CHOOSE y \in S : \A z \in S : z <= y
         IN  <<x>> \o SortedDesc(S \ {x})

\* sorted(S): the elements of a set of integers in ascending order
RECURSIVE Sorted(_)
Sorted(S) ==
    IF S = {} THEN <<>>
    ELSE <<SetMin(S)>> \o Sorted(S \ {SetMin(S)})

\* every order in which the elements of a set can be iterated
RECURSIVE Orders(_)
Orders(S) ==
    IF S = {} THEN {<<>>}
    ELSE UNION {{<<x>> \o o : o \in Orders(S \ {x})} : x \in S}

\* ------------------------------------------------------------------ matrices
Pairs(n) == {p \in Range(n) \X Range(n) : p[1] < p[2]}

\* the symmetric n x n matrix with nonzero off-diagonal entries at the pairs E
\* and the value d on the diagonal
Mat(n, E, d) ==
    [i \in Range(n) |->
        [j \in Range(n) |->
            IF i = j THEN d
            ELSE IF <<Min2(i, j), Max2(i, j)>> \in E THEN 1 ELSE 0]]

\* edge sets of the matrices enumerated: sparse ones and the fully dense one
EdgeSets(n, maxe) ==
    {E \in SUBSET Pairs(n) : Cardinality(E) <= maxe} \cup {Pairs(n)}

SymMatrices(maxn, maxe, diags) ==
    UNION {{Mat(n, E, d) : E \in EdgeSets(n, maxe), d \in diags} : n \in 0 .. maxn}

\* m.shape[0]
Shape0(mat) == Cardinality(DOMAIN mat)

\* set(m[i].nonzero()[0])
NonzeroRow(mat, i) == {j \in DOMAIN mat[i] : mat[i][j] # 0}

\* ------------------------------------------------------------------ find_diagonal_blocks
\* non_zero after the first loop: row i's nonzero columns, with i added
RowSets(mat) == [i \in Range(Shape0(mat)) |-> NonzeroRow(mat, i) \cup {i}]

\* the 1x1 blocks appended by the first loop, for i = from .. n-1 in that order
RECURSIVE DiagonalBlocks(_, _, _)
DiagonalBlocks(nz, from, n) ==
    IF from >= n THEN <<>>
    ELSE (IF Cardinality(nz[from]) = 1 THEN <<nz[from]>> ELSE <<>>)
         \o DiagonalBlocks(nz, from + 1, n)

\* the inner for loop: one pass over the unassigned indices in the given order
RECURSIVE MergePass(_, _, _)
MergePass(new_block, order, nz) ==
    IF order = <<>> THEN new_block
    ELSE LET j == Head(order)
         IN  MergePass(IF new_block \cap nz[j] # {}
                          THEN new_block \cup nz[j] ELSE new_block,
                       Tail(order), nz)

\* first for loop (lines 463-472)
ScanRows ==
    /\ pc = "fdb_scan"
    /\ LET nz == RowSets(m)
       IN  /\ non_zero' = nz
           /\ blocks' = DiagonalBlocks(nz, 0, Shape0(m))
           /\ unassigned_indices' =
                  {i \in Range(Shape0(m)) : Cardinality(nz[i]) # 1}
    /\ pc' = "fdb_while"
    /\ UNCHANGED <<caller, m, block_idx, svd_vars, stat_vars>>

\* one iteration of the while loop (lines 473-479); new_block is the very set
\* object non_zero[p], so the update is seen through non_zero[p] as well
MergeBlock ==
    /\ pc = "fdb_while"
    /\ unassigned_indices # {}
    /\ \E p \in unassigned_indices :
         \E new_block \in {MergePass(non_zero[p], order, non_zero) :
                               order \in Orders(unassigned_indices \ {p})} :
            /\ non_zero' = [non_zero EXCEPT ![p] = new_block]
            /\ unassigned_indices' = (unassigned_indices \ {p}) \ new_block
            /\ blocks' = Append(blocks, new_block)
    /\ UNCHANGED <<pc, caller, m, block_idx, svd_vars, stat_vars>>

\* final loop and return (lines 480-482)
SortBlocks ==
    /\ pc = "fdb_while"
    /\ unassigned_indices = {}
    /\ block_idx' = [i \in 1 .. Len(blocks) |-> Sorted(blocks[i])]
    /\ pc' = IF caller = "svd" THEN "svd_loop" ELSE "fdb_done"
    /\ UNCHANGED <<caller, m, unassigned_indices, non_zero, blocks, svd_vars, stat_vars>>

\* ------------------------------------------------------------------ SVD (gvar.SVD, block regularisation)
Abs(x) == IF x < 0 THEN -x ELSE x

\* the svd cuts enumerated, as <<numerator, denominator>>: -3/2 ... 3/2
CutValues == {<<-3, 2>>, <<-3, 4>>, <<0, 1>>, <<3, 4>>, <<3, 2>>}

\* eigenvalue e lies below |cut| times the largest eigenvalue mx
BelowCut(e, cut, mx) == e * cut[2] < Abs(cut[1]) * mx

\* ascending lists of k eigenvalues drawn from 1 .. MaxEig
EigenLists(k) ==
    {e \in [1 .. k -> 1 .. MaxEig] : \A i \in 1 .. k - 1 : e[i] <= e[i + 1]}

\* SVD(mat, svdcut, svdnum, rescale, compute_delta) for a matrix whose (rescaled)
\* eigenvalues are eig, ascending.  vec: the retained eigenmodes (positions in
\* eig), val: their eigenvalues after the cut as <<numerator, denominator>>,
\* nmod: the number of modes altered or dropped, delta: whether a correction
\* vector was computed.
SVD(eig, cut, svdnum, compute_delta) ==
    LET n == Len(eig)
        mx == eig[n]
        keep == IF svdnum # None /\ svdnum[1] > 0 THEN Min2(svdnum[1], n) ELSE n
        capped == (n - keep + 1) .. n
        low == IF cut = None THEN {}
               ELSE {k \in capped : BelowCut(eig[k], cut, mx)}
        drop == cut # None /\ cut[1] < 0
        kept == IF drop THEN capped \ low ELSE capped
    IN  [vec |-> Sorted(kept),
         val |-> [k \in kept |->
                     IF k \in low THEN <<Abs(cut[1]) * mx, cut[2]>>
                     ELSE <<eig[k], 1>>],
         nmod |-> Cardinality(low),
         delta |-> (cut # None /\ cut[1] >= 0 /\ compute_delta),
         eigen_range |-> <<eig[1], mx>>]

\* s.decomp(-1): one weight vector per retained eigenmode, in the order of s.vec
Decomp(s) == [k \in 1 .. Len(s.vec) |-> [mode |-> s.vec[k], val |-> s.val[s.vec[k]]]]

Reverse(q) == [k \in 1 .. Len(q) |-> q[Len(q) + 1 - k]]

\* ------------------------------------------------------------------ svd
\* a collection of n variables: an array or a dictionary, flattened
Collection(kind, n) ==
    [kind |-> kind, layout |-> n,
     flat |-> [k \in 1 .. n |-> [id |-> k - 1, st |-> "orig"]]]

\* no collection bound yet
NoCollection == [kind |-> "none", layout |-> 0, flat |-> <<>>]

\* the attributes of the function svd before its first call: none is set
NoSvdAttr == [nmod |-> None, dof |-> None, nblocks |-> None, blocks |-> None,
              correction |-> None]

\* lines 393-397: the reference the name g is bound to after "replace g by a
\* copy of g"
AliasRef == "caller"

CopyRef == "local"

\* line 404
InitInvWgts == <<[idx |-> <<>>, wgts |-> <<>>]>>

\* lines 411-412: a 1x1 block's index and weight go into entry 0
AppendSingle(iw, i) ==
    [iw EXCEPT ![1] = [idx |-> Append(iw[1].idx, i),
                       wgts |-> Append(iw[1].wgts, [diag |-> i])]]

\* a multi-index block folded into entry 0
WithMultiBlockMerged(iw, idx, s) ==
    [iw EXCEPT ![1] = [idx |-> iw[1].idx \o idx,
                       wgts |-> iw[1].wgts \o Reverse(Decomp(s))]]

\* lines 426-428: a multi-index block gets an entry of its own
WithMultiBlock(iw, idx, s) ==
    Append(iw, [idx |-> idx, wgts |-> Reverse(Decomp(s))])

\* the size of the block
LostModesAll(idx, s) == Len(idx)

\* line 433
LostModes(idx, s) == Len(idx) - Len(s.vec)

\* g.flat[idx] = ... for every index of the block
SetFlat(coll, idx, st) ==
    [coll EXCEPT !.flat =
        [k \in 1 .. Len(coll.flat) |->
            IF \E q \in 1 .. Len(idx) : idx[q] = k - 1
            THEN [id |-> k - 1, st |-> st] ELSE coll.flat[k]]]

\* lines 393-405
SvdEnter ==
    /\ pc = "svd_start"
    /\ g' = CopyRef
    /\ heap' = [heap EXCEPT !.local = heap.caller]
    /\ svd_attr' = [svd_attr EXCEPT
                      !.nmod = <<0>>,
                      !.correction = <<[k \in 1 .. Shape0(m) |-> "null"]>>]
    /\ inv_wgts' = InitInvWgts
    /\ lost_modes' = 0
    /\ bi' = 1
    /\ caller' = "svd"
    /\ pc' = "fdb_scan"
    /\ UNCHANGED <<fdb_vars, g_before, svdcut, compute_inv, svd_log, ret, stat_vars>>

\* lines 407-412: one iteration of the for loop, on a 1x1 block
SvdSingle ==
    /\ pc = "svd_loop"
    /\ bi <= Len(block_idx)
    /\ Len(block_idx[bi]) = 1
    /\ inv_wgts' = IF compute_inv THEN AppendSingle(inv_wgts, block_idx[bi][1])
                   ELSE inv_wgts
    /\ bi' = bi + 1
    /\ UNCHANGED <<pc, caller, fdb_vars, heap, g_before, g, svdcut, compute_inv,
                   lost_modes, svd_log, svd_attr, ret, stat_vars>>

\* lines 413-437: one iteration of the for loop, on a multi-index block whose
\* rescaled covariance has the eigenvalues eig
SvdMulti ==
    /\ pc = "svd_loop"
    /\ bi <= Len(block_idx)
    /\ Len(block_idx[bi]) # 1
    /\ \E eig \in EigenLists(Len(block_idx[bi])) :
         LET idx == block_idx[bi]
             s == SVD(eig, svdcut, None, TRUE)
             dropping == svdcut # None /\ svdcut[1] < 0
             g1 == IF s.delta THEN SetFlat(heap[g], idx, "floored") ELSE heap[g]
             g2 == IF dropping THEN SetFlat(g1, idx, "projected") ELSE g1
         IN  /\ heap' = [heap EXCEPT ![g] = g2]
             /\ inv_wgts' = IF compute_inv THEN WithMultiBlock(inv_wgts, idx, s)
                            ELSE inv_wgts
             /\ lost_modes' = IF dropping THEN lost_modes + LostModes(idx, s)
                              ELSE lost_modes
             /\ svd_attr' =
                  [svd_attr EXCEPT
                     !.nmod = <<@[1] + s.nmod>>,
                     !.correction =
                        <<[k \in 1 .. Len(@[1]) |->
                            IF \E q \in 1 .. Len(idx) : idx[q] = k - 1
                            THEN (IF s.delta THEN "delta" ELSE "null")
                            ELSE @[1][k]]>>]
             /\ svd_log' = Append(svd_log, [idx |-> idx, nvec |-> Len(s.vec)])
    /\ bi' = bi + 1
    /\ UNCHANGED <<pc, caller, fdb_vars, g_before, g, svdcut, compute_inv, ret,
                   stat_vars>>

\* lines 447-449: the lists become arrays
Repack(iw) == [k \in 1 .. Len(iw) |-> [idx |-> iw[k].idx, wgts |-> iw[k].wgts]]

\* lines 438-453
SvdReturn ==
    /\ pc = "svd_loop"
    /\ bi > Len(block_idx)
    /\ svd_attr' = [svd_attr EXCEPT
                      !.dof = <<Len(heap[g].flat) - lost_modes>>,
                      !.nmod = <<@[1] + lost_modes>>,
                      !.blocks = <<block_idx>>,
                      !.nblocks = <<Len(block_idx)>>]
    /\ ret' = IF compute_inv
              THEN <<[kind |-> "tuple", g |-> heap[g],
                      inv_wgts |-> Repack(inv_wgts)]>>
              ELSE <<[kind |-> "collection", g |-> heap[g], inv_wgts |-> <<>>]>>
    /\ inv_wgts' = IF compute_inv THEN Repack(inv_wgts) ELSE inv_wgts
    /\ pc' = "svd_done"
    /\ UNCHANGED <<caller, fdb_vars, heap, g_before, g, svdcut, compute_inv, bi,
                   lost_modes, svd_log, stat_vars>>

\* ------------------------------------------------------------------ chi2
\* an argument of chi2: a dictionary of scalars (its keys) or an array (its
\* shape: <<>> for a scalar, <<l>> for l elements)
Keys == {"a", "b"}

Chi2Args ==
    {[kind |-> "dict", keys |-> K, shape |-> <<>>] : K \in SUBSET Keys}
    \cup {[kind |-> "array", keys |-> {}, shape |-> sh] :
             sh \in {<<>>} \cup {<<l>> : l \in 0 .. MaxLen}}

NoArg == [kind |-> "None", keys |-> {}, shape |-> <<>>]

Chi2Cuts == {<<3, 4>>, <<-3, 4>>}

\* hasattr(x, 'keys')
HasKeys(x) == x.kind = "dict"

\* number of elements of an array of the given shape
Size(shape) == IF shape = <<>> THEN 1 ELSE shape[1]

\* a dictionary and an array are compared as two arrays
Chi2BranchLax(g1, g2) ==
    IF g2.kind = "None" THEN "single"
    ELSE IF HasKeys(g1) /\ HasKeys(g2) THEN "dicts"
    ELSE "arrays"

\* lines 219-260: which branch builds diff
Chi2Branch(g1, g2) ==
    IF g2.kind = "None" THEN "single"
    ELSE IF HasKeys(g1) /\ HasKeys(g2) THEN "dicts"
    ELSE IF ~HasKeys(g1) /\ ~HasKeys(g2) THEN "arrays"
    ELSE "error"

\* diff.size (lines 220, 226-240, 245-254)
DiffSize(branch, g1, g2) ==
    CASE branch = "single" ->
            IF HasKeys(g1) THEN Cardinality(g1.keys) ELSE Size(g1.shape)
      [] branch = "dicts" -> Cardinality(g1.keys \cap g2.keys)
      [] branch = "arrays" ->
            IF Len(g1.shape) = 1 /\ Len(g2.shape) = 1
            THEN Min2(g1.shape[1], g2.shape[1])
            ELSE Size(g1.shape) * Size(g2.shape)

\* gammaQ(dof/2., ans/2.)
GammaQ(dof, ans) == [fn |-> "gammaQ", a |-> dof, x |-> ans]

ZeroQ == [fn |-> "zero", a |-> 0, x |-> 0]

\* the attributes of the function chi2 before its first call: none is set
NoChi2Attr == [dof |-> None, Q |-> None, chi2 |-> None, s |-> None]

NoChi2Call == [g1 |-> NoArg, g2 |-> NoArg, svdcut |-> None, svdnum |-> None,
               nocorr |-> FALSE, fmt |-> FALSE]

\* lines 279-293: fmt_chi2(f) for an f without attribute logGBF
FmtChi2(f) ==
    [kind |-> "str",
     val |-> <<IF f.dof[1] # 0 THEN <<f.chi2[1], f.dof[1]>> ELSE <<0, 1>>,
               f.dof[1], f.Q[1]>>]

\* lines 261-277, for a diff of the given size whose covariance has the
\* eigenvalues eig and whose statistic comes out as ans
Chi2Body(attr, size, eig, ans, cut, svdnum, nocorr, fmt) ==
    IF size = 0
    THEN [attr |-> [attr EXCEPT !.dof = <<0>>, !.Q = <<ZeroQ>>],
          ret |-> [kind |-> "float", val |-> <<0>>]]
    ELSE LET s == SVD(eig, cut, svdnum, FALSE)
             dof == IF nocorr THEN size ELSE Len(s.vec)
             new == [dof |-> <<dof>>,
                     Q |-> <<GammaQ(dof, ans)>>,
                     chi2 |-> <<ans>>,
                     s |-> IF nocorr THEN <<None>> ELSE << <<s>> >>]
         IN  [attr |-> new,
              ret |-> IF fmt = FALSE THEN [kind |-> "float", val |-> <<ans>>]
                      ELSE FmtChi2(new)]

\* chi2(g1, g2, svdcut, svdnum, nocorr, fmt), lines 219-277
Chi2 ==
    /\ pc = "chi2_idle"
    /\ \E g1 \in Chi2Args, g2 \in Chi2Args \cup {NoArg}, cut \in Chi2Cuts,
          svdnum \in {None, <<1>>}, nocorr \in BOOLEAN, fmt \in BOOLEAN :
         LET branch == Chi2Branch(g1, g2)
         IN  /\ chi2_call' = [g1 |-> g1, g2 |-> g2, svdcut |-> cut,
                              svdnum |-> svdnum, nocorr |-> nocorr, fmt |-> fmt]
             /\ IF branch = "error"
                THEN /\ chi2_ret' = <<[kind |-> "ValueError", val |-> <<>>]>>
                     /\ chi2_attr' = chi2_attr
                ELSE LET size == DiffSize(branch, g1, g2)
                     IN  \E eig \in EigenLists(Max2(size, 1)), ans \in 0 .. MaxChi :
                            LET out == Chi2Body(chi2_attr, size, eig, ans, cut,
                                                svdnum, nocorr, fmt)
                            IN  /\ chi2_attr' = out.attr
                                /\ chi2_ret' = <<out.ret>>
    /\ pc' = "chi2_returned"
    /\ UNCHANGED <<caller, fdb_vars, svd_vars, wavg_vars, aux_vars>>

\* the caller is done with the returned value
Chi2Discard ==
    /\ pc = "chi2_returned"
    /\ chi2_call' = NoChi2Call
    /\ chi2_ret' = None
    /\ pc' = "chi2_idle"
    /\ UNCHANGED <<caller, fdb_vars, svd_vars, chi2_attr, wavg_vars, aux_vars>>

\* ------------------------------------------------------------------ wavg
\* wavg averages two correlated variables x1 (sdev a) and x2 (sdev b) with
\* correlation r = r[1] / r[2]; an array argument holds one such pair per
\* position.  The average is the combination (w1 x1 + w2 x2) / (w1 + w2): it is
\* modelled by <<w1, w2>> in lowest terms.
Sdevs == {1, 2}

Correlations == {<<0, 1>>, <<1, 2>>}

Elems == {[a |-> a, b |-> b, r |-> r] : a \in Sdevs, b \in Sdevs, r \in Correlations}

WavgCuts == {None, <<0, 1>>, <<3, 4>>, <<-3, 4>>}

RECURSIVE GCD(_, _)
GCD(x, y) == IF y = 0 THEN x ELSE GCD(y, x % y)

\* <<w1, w2>> / (w1 + w2) in lowest terms; "nan" when the weights sum to zero
Normalise(w1, w2) ==
    IF w1 + w2 = 0 THEN <<"nan">>
    ELSE LET d == GCD(Abs(w1), Abs(w2))
             sign == IF w1 + w2 < 0 THEN -1 ELSE 1
         IN  <<(sign * w1) \div d, (sign * w2) \div d>>

\* numpy.sum(invcov, axis=1) for invcov = D (p v1 v1^T + q v2 v2^T) D, where
\* v1 = (1,-1)/sqrt 2 and v2 = (1,1)/sqrt 2 are the eigenvectors, p = P / c and
\* q = Q / c the inverse eigenvalues and D is proportional to (da, db)
RowSums(P, Q, da, db) ==
    <<da * ((P + Q) * da + (Q - P) * db), db * ((Q - P) * da + (P + Q) * db)>>

\* the eigenvalues of the 2x2 matrix handed to SVD, times r[2] (and times the
\* common variance and covfac when the matrix is not rescaled)
WavgEigen(e, rescale, fac) ==
    LET c == IF rescale THEN 1 ELSE fac * e.a * e.a
    IN  <<c * (e.r[2] - e.r[1]), c * (e.r[2] + e.r[1])>>

\* lines 146-182: wavg of a sequence of two scalar variables
ScalarWavg(e, cut, svdnum, rescale, covfac) ==
    LET fac == IF covfac = None THEN 1 ELSE covfac[1]
        da == IF rescale THEN e.b ELSE 1
        db == IF rescale THEN e.a ELSE 1
    IN  IF e.r[1] * fac = 0
        THEN [ans |-> Normalise(e.b * e.b, e.a * e.a), dof |-> 1, s |-> None,
              svdcorrection |-> FALSE]
        ELSE IF (cut = None \/ cut[1] = 0) /\ (svdnum = None \/ svdnum[1] < 0)
        THEN LET w == RowSums(e.r[2] + e.r[1], e.r[2] - e.r[1], e.b, e.a)
             IN  [ans |-> Normalise(w[1], w[2]), dof |-> 1, s |-> None,
                  svdcorrection |-> FALSE]
        ELSE LET sv == SVD(WavgEigen(e, rescale, fac), cut, svdnum, TRUE)
                 has1 == \E k \in 1 .. Len(sv.vec) : sv.vec[k] = 1
                 P == IF has1 THEN sv.val[1][2] * sv.val[2][1] ELSE 0
                 Q == IF has1 THEN sv.val[2][2] * sv.val[1][1] ELSE 1
                 w == RowSums(P, Q, da, db)
             IN  [ans |-> Normalise(w[1], w[2]), dof |-> Len(sv.vec) - 1,
                  s |-> <<sv>>, svdcorrection |-> sv.delta]

NoWavgAttr == [dof |-> None, s |-> None, svdcorrection |-> None]

NoWavgCall == [xa |-> [kind |-> "none", el |-> <<>>], svdcut |-> None,
               svdnum |-> None, rescale |-> TRUE, covfac |-> None]

\* lines 177-181 (wavg.chi2 and wavg.Q are real numbers and are not modelled)
WavgAttrs(out) ==
    [dof |-> <<out.dof>>, s |-> <<out.s>>, svdcorrection |-> <<out.svdcorrection>>]

\* line 139: the recursive call on the i-th elements of the arrays
ElementWavg(e) == ScalarWavg(e, None, None, TRUE, None)

\* the arguments enumerated; without rescaling the eigenvalues are exact only
\* for equal variances
WavgArgs ==
    {c \in [xa : {[kind |-> "scalars", el |-> <<e>>] : e \in Elems}
                 \cup {[kind |-> "arrays", el |-> el] :
                          el \in UNION {[1 .. k -> Elems] : k \in 0 .. MaxK}},
            svdcut : WavgCuts, svdnum : {None, <<1>>}, rescale : BOOLEAN,
            covfac : {None, <<2>>}] :
        c.rescale \/ \A k \in 1 .. Len(c.xa.el) : c.xa.el[k].a = c.xa.el[k].b}

\* wavg(xa, svdcut, svdnum, rescale, covfac), lines 132-182
Wavg ==
    /\ pc = "wavg_idle"
    /\ \E c \in WavgArgs :
         /\ wavg_call' = c
         /\ IF c.xa.kind = "arrays"
            THEN LET K == Len(c.xa.el)
                 IN  /\ wavg_ret' =
                            <<[kind |-> "array",
                               val |-> [i \in 1 .. K |-> ElementWavg(c.xa.el[i]).ans]]>>
                     /\ wavg_attr' = IF K = 0 THEN wavg_attr
                                     ELSE WavgAttrs(ElementWavg(c.xa.el[K]))
            ELSE LET out == ScalarWavg(c.xa.el[1], c.svdcut, c.svdnum, c.rescale,
                                       c.covfac)
                 IN  /\ wavg_ret' = <<[kind |-> "gvar", val |-> <<out.ans>>]>>
                     /\ wavg_attr' = WavgAttrs(out)
    /\ pc' = "wavg_returned"
    /\ UNCHANGED <<caller, fdb_vars, svd_vars, chi2_vars, aux_vars>>

\* the caller is done with the returned value
WavgDiscard ==
    /\ pc = "wavg_returned"
    /\ wavg_call' = NoWavgCall
    /\ wavg_ret' = None
    /\ pc' = "wavg_idle"
    /\ UNCHANGED <<caller, fdb_vars, svd_vars, chi2_vars, wavg_attr, aux_vars>>

\* ------------------------------------------------------------------ empbayes_fit
\* the values of z the search may try or return
EbZs == 1 .. MaxZ

\* save = dict(lastz=None, lastp0=None), line 43
NoSave == [lastz |-> None, lastp0 |-> None]

\* lsqfit.nonlinear_fit(**args): the fit is known by the z and the p0 it was
\* run with; args['p0'] is set only when save['lastp0'] is not None
Fit(z, save) == [z |-> z, p0 |-> save.lastp0]

\* lines 41-43: minargs == {} reads math.log, and math is never imported
EbEnter ==
    /\ pc = "eb_start"
    /\ IF eb_minargs = "default"
       THEN /\ eb_ret' = <<[kind |-> "NameError", fit |-> None, z |-> None]>>
            /\ pc' = "eb_done"
            /\ UNCHANGED eb_save
       ELSE /\ eb_save' = NoSave
            /\ pc' = "eb_search"
            /\ UNCHANGED eb_ret
    /\ UNCHANGED <<caller, fdb_vars, svd_vars, chi2_vars, wavg_vars, gv_vars,
                   eb_minargs, eb_log, eb_z, eb_warned>>

\* one call of minfcn made by multiminex, lines 44-54; a ValueError raised by
\* minfcn ends the search in the except branch, lines 58-60
EbEval ==
    /\ pc = "eb_search"
    /\ Len(eb_log) < MaxEvals
    /\ \E z \in EbZs, finite \in BOOLEAN :
          /\ eb_log' = Append(eb_log, [fit |-> Fit(<<z>>, eb_save), finite |-> finite])
          /\ IF finite
             THEN /\ eb_save' = [lastz |-> <<z>>, lastp0 |-> <<z>>]
                  /\ UNCHANGED <<pc, eb_z, eb_warned>>
             ELSE /\ eb_z' = eb_save.lastz
                  /\ eb_warned' = TRUE
                  /\ pc' = "eb_final"
                  /\ UNCHANGED eb_save
    /\ UNCHANGED <<caller, fdb_vars, svd_vars, chi2_vars, wavg_vars, gv_vars,
                   eb_minargs, eb_ret>>

\* multiminex returns and z is its minimum .x, line 57
EbConverge ==
    /\ pc = "eb_search"
    /\ \E x \in EbZs : eb_z' = <<x>>
    /\ pc' = "eb_final"
    /\ UNCHANGED <<caller, fdb_vars, svd_vars, chi2_vars, wavg_vars, gv_vars,
                   eb_minargs, eb_save, eb_log, eb_warned, eb_ret>>

\* the final fit, lines 61-64; what the caller's fitargs does with z = None is
\* the caller's: it returns arguments or raises
EbFinalFit ==
    /\ pc = "eb_final"
    /\ \E kind \in IF eb_z = None THEN {"ok", "error"} ELSE {"ok"} :
          eb_ret' = <<[kind |-> kind,
                       fit |-> IF kind = "ok" THEN <<Fit(eb_z, eb_save)>> ELSE None,
                       z |-> eb_z]>>
    /\ pc' = "eb_done"
    /\ UNCHANGED <<caller, fdb_vars, svd_vars, chi2_vars, wavg_vars, gv_vars,
                   eb_minargs, eb_save, eb_log, eb_z, eb_warned>>

\* ------------------------------------------------------------------ switch_gvar, restore_gvar
\* GVarFactory(cov): a new object, known by the order of its creation
GVarFactory(id, cov) == [id |-> id, cov |-> cov]

\* gvar = GVarFactory(), line 80
BaseFactory == GVarFactory(0, None)

\* the covariance matrices a caller may hand to switch_gvar
Covs == {None, <<"cov">>}

\* a list.pop() that takes the first element
PopFirst(list) == [val |-> Head(list), rest |-> Tail(list)]

\* _GVAR_LIST.pop(), line 142: the last element and the list without it
Pop(list) == [val |-> list[Len(list)], rest |-> SubSeq(list, 1, Len(list) - 1)]

\* switch_gvar(cov), lines 124-132
switch_gvar ==
    /\ pc = "gvar_idle"
    /\ gv_next <= MaxSwitch
    /\ \E cov \in Covs :
          /\ gv_list' = Append(gv_list, gv_cur)
          /\ gv_cur' = GVarFactory(gv_next, cov)
          /\ gv_out' = <<[op |-> "switch_gvar", kind |-> "ok",
                          val |-> <<GVarFactory(gv_next, cov)>>]>>
    /\ gv_parent' = Append(gv_parent, gv_cur)
    /\ gv_next' = gv_next + 1
    /\ UNCHANGED <<pc, caller, fdb_vars, svd_vars, chi2_vars, wavg_vars, eb_vars>>

\* restore_gvar(), lines 135-145
restore_gvar ==
    /\ pc = "gvar_idle"
    /\ IF gv_list = <<>>
       THEN /\ gv_out' = <<[op |-> "restore_gvar", kind |-> "RuntimeError",
                            val |-> None]>>
            /\ UNCHANGED <<gv_cur, gv_list>>
       ELSE /\ gv_cur' = Pop(gv_list).val
            /\ gv_list' = Pop(gv_list).rest
            /\ gv_out' = <<[op |-> "restore_gvar", kind |-> "ok",
                            val |-> <<Pop(gv_list).val>>]>>
    /\ UNCHANGED <<pc, caller, fdb_vars, svd_vars, chi2_vars, wavg_vars, eb_vars,
                   gv_next, gv_parent>>

\* ------------------------------------------------------------------ specification: find_diagonal_blocks alone
FdbIdle ==
    /\ unassigned_indices = {}
    /\ non_zero = <<>>
    /\ blocks = <<>>
    /\ block_idx = <<>>

SvdIdle ==
    /\ heap = [caller |-> NoCollection, local |-> NoCollection]
    /\ g_before = NoCollection
    /\ g = "caller"
    /\ svdcut = None
    /\ compute_inv = FALSE
    /\ bi = 1
    /\ lost_modes = 0
    /\ inv_wgts = <<>>
    /\ svd_log = <<>>
    /\ svd_attr = NoSvdAttr
    /\ ret = None

Chi2Idle ==
    /\ chi2_attr = NoChi2Attr
    /\ chi2_call = NoChi2Call
    /\ chi2_ret = None

WavgIdle ==
    /\ wavg_attr = NoWavgAttr
    /\ wavg_call = NoWavgCall
    /\ wavg_ret = None

EbIdle ==
    /\ eb_minargs = "given"
    /\ eb_save = NoSave
    /\ eb_log = <<>>
    /\ eb_z = None
    /\ eb_warned = FALSE
    /\ eb_ret = None

GvIdle ==
    /\ gv_cur = BaseFactory
    /\ gv_list = <<>>
    /\ gv_next = 1
    /\ gv_parent = <<>>
    /\ gv_out = None

InitBlocks ==
    /\ pc = "fdb_scan"
    /\ caller = "none"
    /\ m \in SymMatrices(MaxN, MaxEdges, {0, 1})
    /\ FdbIdle
    /\ SvdIdle
    /\ Chi2Idle
    /\ WavgIdle
    /\ EbIdle
    /\ GvIdle

NextBlocks == ScanRows \/ MergeBlock \/ SortBlocks

SpecBlocks == InitBlocks /\ [][NextBlocks]_vars

\* ------------------------------------------------------------------ specification: svd
InitSvd ==
    /\ pc = "svd_start"
    /\ caller = "none"
    /\ m \in SymMatrices(MaxG, MaxGEdges, {1})
    /\ FdbIdle
    /\ \E kind \in {"array", "dict"} :
          /\ g_before = Collection(kind, Shape0(m))
          /\ heap = [caller |-> Collection(kind, Shape0(m)), local |-> NoCollection]
    /\ g = "caller"
    /\ svdcut \in {None} \cup CutValues
    /\ compute_inv \in BOOLEAN
    /\ bi = 1
    /\ lost_modes = 0
    /\ inv_wgts = <<>>
    /\ svd_log = <<>>
    /\ svd_attr = NoSvdAttr
    /\ ret = None
    /\ Chi2Idle
    /\ WavgIdle
    /\ EbIdle
    /\ GvIdle

NextSvd ==
    \/ SvdEnter
    \/ ScanRows
    \/ MergeBlock
    \/ SortBlocks
    \/ SvdSingle
    \/ SvdMulti
    \/ SvdReturn

SpecSvd == InitSvd /\ [][NextSvd]_vars

\* ------------------------------------------------------------------ specification: chi2
InitChi2 ==
    /\ pc = "chi2_idle"
    /\ caller = "none"
    /\ m = <<>>
    /\ FdbIdle
    /\ SvdIdle
    /\ Chi2Idle
    /\ WavgIdle
    /\ EbIdle
    /\ GvIdle

NextChi2 == Chi2 \/ Chi2Discard

SpecChi2 == InitChi2 /\ [][NextChi2]_vars

\* ------------------------------------------------------------------ specification: wavg
InitWavg ==
    /\ pc = "wavg_idle"
    /\ caller = "none"
    /\ m = <<>>
    /\ FdbIdle
    /\ SvdIdle
    /\ Chi2Idle
    /\ WavgIdle
    /\ EbIdle
    /\ GvIdle

NextWavg == Wavg \/ WavgDiscard

SpecWavg == InitWavg /\ [][NextWavg]_vars

\* ------------------------------------------------------------------ specification: empbayes_fit
InitEmpbayes ==
    /\ pc = "eb_start"
    /\ caller = "none"
    /\ m = <<>>
    /\ FdbIdle
    /\ SvdIdle
    /\ Chi2Idle
    /\ WavgIdle
    /\ eb_minargs \in {"given", "default"}
    /\ eb_save = NoSave
    /\ eb_log = <<>>
    /\ eb_z = None
    /\ eb_warned = FALSE
    /\ eb_ret = None
    /\ GvIdle

NextEmpbayes == EbEnter \/ EbEval \/ EbConverge \/ EbFinalFit

SpecEmpbayes == InitEmpbayes /\ [][NextEmpbayes]_vars

\* ------------------------------------------------------------------ specification: switch_gvar, restore_gvar
InitGvar ==
    /\ pc = "gvar_idle"
    /\ caller = "none"
    /\ m = <<>>
    /\ FdbIdle
    /\ SvdIdle
    /\ Chi2Idle
    /\ WavgIdle
    /\ EbIdle
    /\ GvIdle

NextGvar == switch_gvar \/ restore_gvar

SpecGvar == InitGvar /\ [][NextGvar]_vars

\* ------------------------------------------------------------------ claims on find_diagonal_blocks
BlockSet(i) == {block_idx[i][k] : k \in 1 .. Len(block_idx[i])}

\* i and j are joined by a chain of nonzero entries of mat
RECURSIVE Reach(_, _)
Reach(mat, S) ==
    LET T == S \cup UNION {NonzeroRow(mat, i) : i \in S}
    IN  IF T = S THEN S ELSE Reach(mat, T)

Connected(mat, i, j) == j \in Reach(mat, {i})

\* C1: the returned blocks are a partition of 0..n-1: every index is in some
\* block and no index is in two different blocks.
C1_Partition ==
    pc = "fdb_done" =>
        /\ UNION {BlockSet(i) : i \in 1 .. Len(block_idx)} = Range(Shape0(m))
        /\ \A a, b \in 1 .. Len(block_idx) :
               a # b => BlockSet(a) \cap BlockSet(b) = {}

\* C2: two indices share a returned block iff a chain of nonzero entries joins
\* them, and each merge is carried on until no unassigned index overlaps the
\* block any more.
C2_TransitiveClosure ==
    /\ pc = "fdb_done" =>
          \A i, j \in Range(Shape0(m)) :
              (\E b \in 1 .. Len(block_idx) : {i, j} \subseteq BlockSet(b))
                  <=> Connected(m, i, j)
    /\ pc = "fdb_while" =>
          \A b \in 1 .. Len(blocks) : \A j \in unassigned_indices :
              non_zero[j] \cap blocks[b] = {}

IsAscending(s) == \A k \in 1 .. Len(s) - 1 : s[k] < s[k + 1]

\* C3: 1x1 blocks come first and in ascending index order, the indices inside
\* every block ascend; no nonzero off-diagonal entry gives n singleton blocks
\* and a fully dense matrix gives one block of size n.
C3_Ordering ==
    pc = "fdb_done" =>
        LET n == Shape0(m)
            L == Len(block_idx)
        IN  /\ \A a, b \in 1 .. L :
                   (a < b /\ Len(block_idx[b]) = 1) =>
                       /\ Len(block_idx[a]) = 1
                       /\ block_idx[a][1] < block_idx[b][1]
            /\ \A a \in 1 .. L : IsAscending(block_idx[a])
            /\ (\A p \in Pairs(n) : m[p[1]][p[2]] = 0) =>
                   block_idx = [i \in 1 .. n |-> <<i - 1>>]
            /\ (n >= 1 /\ \A p \in Pairs(n) : m[p[1]][p[2]] # 0) =>
                   block_idx = <<[k \in 1 .. n |-> k - 1]>>

\* C3's case: singleton blocks ahead of a multi-index block
C3_Witness ==
    /\ pc = "fdb_done"
    /\ Len(block_idx) >= 3
    /\ Len(block_idx[1]) = 1
    /\ Len(block_idx[2]) = 1
    /\ Len(block_idx[Len(block_idx)]) >= 2

\* ------------------------------------------------------------------ claims on svd
IsSingle(idx) == Len(idx) = 1
IsMulti(idx) == Len(idx) # 1

RECURSIVE SumDropped(_)
SumDropped(log) ==
    IF log = <<>> THEN 0
    ELSE (Len(Head(log).idx) - Head(log).nvec) + SumDropped(Tail(log))

\* C4: after svd returns, svd.dof is the flattened size of g minus the modes
\* dropped over all multi-index blocks (block size minus retained modes); it is
\* the flattened size when svdcut is None or >= 0, and 0 for an empty g.
C4_Dof ==
    pc = "svd_done" =>
        LET size == Len(g_before.flat)
        IN  /\ svd_attr.dof = <<size - SumDropped(svd_log)>>
            /\ (svdcut = None \/ svdcut[1] >= 0) => svd_attr.dof = <<size>>
            /\ size = 0 => svd_attr.dof = <<0>>

\* C4's case: a negative cut dropped modes of two multi-index blocks
C4_Witness ==
    /\ pc = "svd_done"
    /\ svdcut # None
    /\ svdcut[1] < 0
    /\ Len(svd_log) >= 2
    /\ \A k \in 1 .. Len(svd_log) : svd_log[k].nvec < Len(svd_log[k].idx)
    /\ svd_attr.dof[1] < Len(g_before.flat)

\* C5: with compute_inv=True the inverse-weight list has 1 + (number of
\* multi-index blocks) entries: entry 0 holds the indices of all 1x1 blocks with
\* one weight each (and is there even with no 1x1 block), the others follow the
\* multi-index blocks in block order, each with the block's index array and one
\* weight vector per retained eigenmode.
C5_InvWgts ==
    (pc = "svd_done" /\ compute_inv) =>
        LET iw == ret[1].inv_wgts
            singles == SelectSeq(block_idx, IsSingle)
            multis == SelectSeq(block_idx, IsMulti)
        IN  /\ ret[1].kind = "tuple"
            /\ Len(iw) = 1 + Len(multis)
            /\ iw[1].idx = [k \in 1 .. Len(singles) |-> singles[k][1]]
            /\ Len(iw[1].wgts) = Len(iw[1].idx)
            /\ \A k \in 1 .. Len(multis) :
                   /\ iw[k + 1].idx = multis[k]
                   /\ Len(iw[k + 1].wgts) = svd_log[k].nvec

\* C5's case: two multi-index blocks and no 1x1 block
C5_Witness ==
    /\ pc = "svd_done"
    /\ compute_inv
    /\ Len(ret[1].inv_wgts) = 3
    /\ ret[1].inv_wgts[1].idx = <<>>
    /\ Len(ret[1].inv_wgts[3].wgts) < Len(ret[1].inv_wgts[3].idx)

\* C6: svd never modifies the caller's g, under the floor and the drop policy;
\* the returned collection has g's ordering, keys and shape, and its elements
\* of 1x1 blocks are the input's elements.
C6_CallerUnchanged ==
    /\ pc \in {"fdb_scan", "fdb_while", "svd_loop", "svd_done"} =>
           heap.caller = g_before
    /\ pc = "svd_done" =>
           LET out == ret[1].g
           IN  /\ out.kind = g_before.kind
               /\ out.layout = g_before.layout
               /\ Len(out.flat) = Len(g_before.flat)
               /\ \A k \in 1 .. Len(out.flat) : out.flat[k].id = g_before.flat[k].id
               /\ \A b \in 1 .. Len(block_idx) :
                      IsSingle(block_idx[b]) =>
                          out.flat[block_idx[b][1] + 1]
                              = g_before.flat[block_idx[b][1] + 1]

\* C6's case: svd replaced elements of a multi-index block and left a 1x1
\* block's element alone
C6_Witness ==
    /\ pc = "svd_done"
    /\ \E k \in 1 .. Len(ret[1].g.flat) : ret[1].g.flat[k].st # "orig"
    /\ \E b \in 1 .. Len(block_idx) : IsSingle(block_idx[b])

\* C7: svd rejects a cut with |svdcut| > 1: the call ends in a usage error
\* instead of returning a regularized collection.
C7_RejectsLargeCut ==
    (pc = "svd_done" /\ svdcut # None /\ Abs(svdcut[1]) > svdcut[2]) =>
        ret[1].kind = "error"

\* ------------------------------------------------------------------ claims on chi2
Chi2Mismatch(call) ==
    /\ call.g2.kind # "None"
    /\ call.g1.kind # "None"
    /\ HasKeys(call.g1) # HasKeys(call.g2)

\* C8: chi2(g1, g2) with g2 not None and exactly one of g1, g2 a mapping ends
\* in a ValueError, raised before any of chi2's attributes dof, Q, chi2, s is
\* changed.
C8_MismatchRaises ==
    [][(pc' = "chi2_returned" /\ Chi2Mismatch(chi2_call')) =>
           (chi2_ret'[1].kind = "ValueError" /\ chi2_attr' = chi2_attr)]_vars

\* C8's case: a mismatched call after an earlier call has set the attributes
C8_Witness ==
    /\ pc = "chi2_returned"
    /\ Chi2Mismatch(chi2_call)
    /\ chi2_ret[1].kind = "ValueError"
    /\ chi2_attr.chi2 # None
    /\ chi2_attr.s # None

\* C9: whenever chi2 is called with fmt=True and returns normally, it returns
\* the formatted string, also for an empty overlap (dof = 0).
C9_FmtReturnsString ==
    (pc = "chi2_returned" /\ chi2_call.fmt /\ chi2_ret[1].kind # "ValueError") =>
        chi2_ret[1].kind = "str"

\* ------------------------------------------------------------------ claims on wavg
\* C10: for arrays, element i of wavg's result is the scalar wavg of the i-th
\* elements computed with the svdcut, svdnum, rescale and covfac of the call.
C10_ElementwiseSameParams ==
    (pc = "wavg_returned" /\ wavg_call.xa.kind = "arrays") =>
        /\ wavg_ret[1].kind = "array"
        /\ wavg_ret[1].val =
               [i \in 1 .. Len(wavg_call.xa.el) |->
                   ScalarWavg(wavg_call.xa.el[i], wavg_call.svdcut,
                              wavg_call.svdnum, wavg_call.rescale,
                              wavg_call.covfac).ans]

\* ------------------------------------------------------------------ claims on chi2's attributes
\* the statistic a normally returned call handed back: the float itself, or
\* the numerator of the chi2/dof printed in the string
Chi2Returned ==
    IF chi2_ret[1].kind = "float" THEN chi2_ret[1].val[1] ELSE chi2_ret[1].val[1][1]

\* C13: whenever a chi2 call returns normally, chi2.chi2, chi2.dof, chi2.Q and
\* chi2.s all describe that call (chi2.chi2 is the statistic just returned,
\* chi2.s the decomposition just used or None), also for an empty overlap.
C13_AttrsDescribeCall ==
    (pc = "chi2_returned" /\ chi2_ret[1].kind # "ValueError") =>
        LET size == DiffSize(Chi2Branch(chi2_call.g1, chi2_call.g2),
                             chi2_call.g1, chi2_call.g2)
        IN  /\ chi2_attr.chi2 = <<Chi2Returned>>
            /\ IF size = 0
               THEN /\ chi2_attr.dof = <<0>>
                    /\ chi2_attr.Q = <<ZeroQ>>
                    /\ chi2_attr.s = <<None>>
               ELSE /\ chi2_attr.dof # None
                    /\ chi2_attr.Q = <<GammaQ(chi2_attr.dof[1], Chi2Returned)>>
                    /\ IF chi2_call.nocorr
                       THEN /\ chi2_attr.s = <<None>>
                            /\ chi2_attr.dof = <<size>>
                       ELSE /\ chi2_attr.s \notin {None, <<None>>}
                            /\ chi2_attr.dof = <<Len(chi2_attr.s[1][1].vec)>>

\* ------------------------------------------------------------------ claims on empbayes_fit
\* the fits of the search that produced a finite logGBF, by position
GoodFits == {i \in 1 .. Len(eb_log) : eb_log[i].finite}

\* C11: when the search met a NaN logGBF at any evaluation, the first one
\* included, the z used for the final fit and returned is the last z at which
\* a fit produced a finite logGBF, never one for which no fit succeeded.
C11_LastKnownGood ==
    (pc = "eb_done" /\ eb_warned) =>
        /\ GoodFits # {}
        /\ LET last == CHOOSE i \in GoodFits : \A j \in GoodFits : j <= i
           IN  /\ eb_ret[1].kind = "ok"
               /\ eb_ret[1].z = eb_log[last].fit.z
               /\ eb_ret[1].fit[1].z = eb_log[last].fit.z

\* ------------------------------------------------------------------ claims on switch_gvar, restore_gvar
\* C12: each restore_gvar makes the current factory the one that was current
\* immediately before the matching switch_gvar (the switch that created the
\* factory being left), at any nesting depth; with no unmatched switch_gvar
\* (the current factory is the one made at import) it raises RuntimeError and
\* leaves the current factory and the saved list unchanged.
C12_RestoreMatches ==
    [][(gv_out' # None /\ gv_out'[1].op = "restore_gvar") =>
           IF gv_cur.id # BaseFactory.id
           THEN /\ gv_out'[1].kind = "ok"
                /\ gv_cur' = gv_parent[gv_cur.id]
                /\ gv_out'[1].val = <<gv_cur'>>
           ELSE /\ gv_out'[1].kind = "RuntimeError"
                /\ gv_cur' = gv_cur
                /\ gv_list' = gv_list]_vars

\* C12's case: a restore_gvar has returned from nesting depth two or more
C12_Witness ==
    /\ gv_out # None
    /\ gv_out[1].op = "restore_gvar"
    /\ gv_out[1].kind = "ok"
    /\ Len(gv_list) >= 1
    /\ gv_cur.id # BaseFactory.id
====
